---- MODULE Spec2Model ----
(***************************************************************************)
(* Per-pixel model of the NDVI vegetation cover change scripts.            *)
(*                                                                         *)
(*   script = "v9" : src/ndvi_threshold_change.js (9-class, edge classes)  *)
(*   script = "v8" : src/unnamed/part_000 (8-class, significance gated)    *)
(*                                                                         *)
(* Every Earth Engine image is modelled by the value it has at one pixel.  *)
(* A masked pixel is the value NoData.                                     *)
(*                                                                         *)
(* Units: NDVI values are integers in steps of 0.05 (12 is NDVI 0.60),     *)
(* slopes are integers in steps of 0.001 NDVI/year (5 is 0.005/yr) and     *)
(* p-values are integers in steps of 0.01 (5 is p = 0.05).                 *)
(***************************************************************************)
EXTENDS Integers, Sequences, FiniteSets

VARIABLES
    script,                 \* which of the two scripts runs
    SENSITIVITY_ADJUSTMENT, \* configuration, shifts the three NDVI thresholds
    startYear, endYear,     \* configuration
    pc,                     \* position in the script
    startNDVI, endNDVI,     \* baseline and end composites
    startClass, endClass,   \* vegetation class of each composite
    slope, pValue,          \* long-term linear fit and Kendall p-value
    recentSlope,            \* 10-year linear fit
    trendClass,
    changeClass,
    y,                      \* loop variable of the epoch loop
    epochs,                 \* array of {start, end, label}
    epochImgs,              \* images of epochCollection, one per epoch
    establishmentEpoch,
    epochNDVI,    \* seasonal composite of each epoch, in array order
    fullCollection,    \* the clear in-season observations of the pixel: [year, Red, NIR]
    yearsToThreshold,    \* projected years before masking, in 1/YearScale years
    yearsToCanopy,    \* the projection layer
    image,    \* two grids of per-pixel histories (runs a and b)
    grid,    \* the stored result record of each pixel of each run
    cur,    \* the pixel the pipeline is working on
    values,    \* the band values the server holds for each point that can be clicked
    clicks,    \* the points clicked so far, in order
    pending,    \* values.evaluate requests whose callback has not run yet
    panel,    \* what inspectorPanel shows
    reforestationMask,    \* binary forest script: was Open and is Forest
    annualCollection,    \* binary forest script: the recovery_year image of each year so far
    finalRecoveryMap    \* binary forest script: year of recovery

vars == <<script, SENSITIVITY_ADJUSTMENT, startYear, endYear, pc,
          startNDVI, endNDVI, startClass, endClass, slope, pValue,
          recentSlope, trendClass, changeClass, y, epochs, epochImgs,
          establishmentEpoch,
          epochNDVI,
          fullCollection,
          yearsToThreshold,
          yearsToCanopy,
          image,
          grid,
          cur,
          values,
          clicks,
          pending,
          panel,
          reforestationMask,
          annualCollection,
          finalRecoveryMap>>

(***************************************************************************)
(* Bounds of the model.                                                    *)
(***************************************************************************)
MaxAdj == 1          \* SENSITIVITY_ADJUSTMENT ranges over -MaxAdj..MaxAdj
MinNdvi == 2         \* lowest composite NDVI drawn (0.10)
MaxNdvi == 13        \* highest composite NDVI drawn (0.65)
MaxSlopeExcess == 1  \* slopes drawn up to this far beyond the thresholds
MaxP == 5            \* highest p-value drawn (0.05)
MaxSpan == 18        \* endYear ranges over startYear..startYear+MaxSpan
MaxHistSpan == 11    \* with a drawn history, endYear is at most startYear+MaxHistSpan
MaxObs == 3          \* observations of one window, when they are drawn freely
MaxRefl == 3         \* reflectances drawn are 1..MaxRefl (the unit is arbitrary)

(***************************************************************************)
(* Configuration constants of the scripts.                                 *)
(***************************************************************************)
BaseYear == 1985
EpochWidth == 5
MinTail_one == 3 - 2
MinTail == 3
DENSE_BASE == 12
TRANSITIONAL_BASE == 8
SPARSE_BASE == 4
GAINING_SLOPE == 5
LOSING_SLOPE == 0 - 5
SIGNIFICANCE_LEVEL == 5

DENSE_CANOPY == DENSE_BASE + SENSITIVITY_ADJUSTMENT
TRANSITIONAL == TRANSITIONAL_BASE + SENSITIVITY_ADJUSTMENT
SPARSE == SPARSE_BASE + SENSITIVITY_ADJUSTMENT

(***************************************************************************)
(* Earth Engine image operations at one pixel.  A comparison or a boolean  *)
(* operation of a masked operand is masked; where() keeps the input value  *)
(* wherever the test is masked or zero, and keeps the input's mask.        *)
(***************************************************************************)
NoData == 0 - 999

Bool(b) == IF b THEN 1 ELSE 0

Gte(a, b) == IF a = NoData \/ b = NoData THEN NoData ELSE Bool(a >= b)
Gt(a, b) == IF a = NoData \/ b = NoData THEN NoData ELSE Bool(a > b)
Lte(a, b) == IF a = NoData \/ b = NoData THEN NoData ELSE Bool(a <= b)
Lt(a, b) == IF a = NoData \/ b = NoData THEN NoData ELSE Bool(a < b)
Eq(a, b) == IF a = NoData \/ b = NoData THEN NoData ELSE Bool(a = b)
And(a, b) == IF a = NoData \/ b = NoData THEN NoData ELSE Bool(a # 0 /\ b # 0)
Or(a, b) == IF a = NoData \/ b = NoData THEN NoData ELSE Bool(a # 0 \/ b # 0)

Where(input, test, value) ==
    IF input = NoData THEN NoData
    ELSE IF test = NoData \/ value = NoData THEN input
    ELSE IF test # 0 THEN value
    ELSE input

Multiply(a, b) == IF a = NoData \/ b = NoData THEN NoData ELSE a * b

SelfMask(a) == IF a = NoData \/ a = 0 THEN NoData ELSE a

UpdateMask(a, mask) ==
    IF a = NoData \/ mask = NoData \/ mask = 0 THEN NoData ELSE a

RECURSIVE CollectionMin_max(_)
CollectionMin_max(imgs) ==
    IF imgs = <<>> THEN NoData
    ELSE LET h == Head(imgs)
             r == CollectionMin_max(Tail(imgs))
         IN IF h = NoData THEN r
            ELSE IF r = NoData THEN h
            ELSE IF h >= r THEN h ELSE r

\* ImageCollection.min(): the smallest unmasked value, masked if there is none
RECURSIVE CollectionMin(_)
CollectionMin(imgs) ==
    IF imgs = <<>> THEN NoData
    ELSE LET h == Head(imgs)
             r == CollectionMin(Tail(imgs))
         IN IF h = NoData THEN r
            ELSE IF r = NoData THEN h
            ELSE IF h <= r THEN h ELSE r

Subtract(a, b) == IF a = NoData \/ b = NoData THEN NoData ELSE a - b

Abs(a) == IF a = NoData THEN NoData ELSE IF a < 0 THEN 0 - a ELSE a

\* ee.Image.divide returns 0 for a division by 0
Divide(a, b) ==
    IF a = NoData \/ b = NoData THEN NoData
    ELSE IF b = 0 THEN 0
    ELSE a \div b

Clamp(a, lo, hi) ==
    IF a = NoData THEN NoData
    ELSE IF a < lo THEN lo
    ELSE IF a > hi THEN hi
    ELSE a

\* least common multiple of 1..n
RECURSIVE Gcd(_, _)
Gcd(a, b) == IF b = 0 THEN a ELSE Gcd(b, a % b)

RECURSIVE LcmUpTo(_)
LcmUpTo(n) ==
    IF n <= 1 THEN 1
    ELSE LET l == LcmUpTo(n - 1) IN (l * n) \div Gcd(l, n)

\* the quotient a / b (b > 0) rounded away from zero: comparing it with a
\* whole number by >, <, >= 1 or <= 0 gives what the exact quotient gives
RoundAway(a, b) ==
    IF a >= 0 THEN 0 - ((0 - a) \div b) ELSE a \div b

RECURSIVE SumSeq(_)
SumSeq(w) == IF w = <<>> THEN 0 ELSE Head(w) + SumSeq(Tail(w))

(***************************************************************************)
(* Input domains.                                                          *)
(***************************************************************************)
Scripts == {"v9", "v8"}
AdjVals == (0 - MaxAdj)..MaxAdj
NdviVals == {NoData} \cup (MinNdvi..MaxNdvi)
SlopeVals == {NoData, 0}
             \cup {LOSING_SLOPE - d : d \in 0..MaxSlopeExcess}
             \cup {GAINING_SLOPE + d : d \in 0..MaxSlopeExcess}
PVals == {NoData} \cup ((SIGNIFICANCE_LEVEL - 1)..MaxP)

(***************************************************************************)
(* NDVI compositor.  ImageCollection.median() reduces each band on its     *)
(* own over the unmasked observations of the pixel (the mean of the two    *)
(* middle values when their number is even), and is masked when there is   *)
(* none.  Band medians are carried doubled to stay integers; the           *)
(* normalized difference does not depend on the common factor.             *)
(***************************************************************************)
\* the number of elements of the sequence w that are below v, or at most v
CountBelow(w, v) == Cardinality({i \in 1..Len(w) : w[i] < v})
CountUpTo(w, v) == Cardinality({i \in 1..Len(w) : w[i] <= v})

\* the k-th smallest element of the non-empty integer sequence w
KthSmallest(w, k) ==
    CHOOSE v \in {w[i] : i \in 1..Len(w)} :
        CountBelow(w, v) < k /\ k <= CountUpTo(w, v)

\* twice the median of the integer sequence w, masked if w is empty
Median2(w) ==
    IF w = <<>> THEN NoData
    ELSE IF Len(w) % 2 = 1 THEN 2 * KthSmallest(w, (Len(w) + 1) \div 2)
    ELSE KthSmallest(w, Len(w) \div 2) + KthSmallest(w, Len(w) \div 2 + 1)

normalizedDifference_signed(a, b) ==
    IF a = NoData \/ b = NoData THEN NoData
    ELSE IF a + b = 0 THEN NoData
    ELSE (20 * (a - b)) \div (a + b)

\* image.normalizedDifference([a, b]) in NDVI units of 0.05, rounded down
\* (a >= comparison with a threshold in whole units is not affected); masked
\* where a band is masked or negative or the sum of the bands is zero
normalizedDifference(a, b) ==
    IF a = NoData \/ b = NoData THEN NoData
    ELSE IF a < 0 \/ b < 0 \/ a + b = 0 THEN NoData
    ELSE (20 * (a - b)) \div (a + b)

\* fullCollection.filterDate(fromYear-01-01, toYear-12-31)
filterDate(fromYear, toYear) ==
    LET InRange(o) == fromYear <= o.year /\ o.year <= toYear
    IN SelectSeq(fullCollection, InRange)

Band(w, b) == [i \in 1..Len(w) |-> w[i][b]]

\* getSeasonalComposite (8-class) and getSummerNDVI (9-class) are the same
\* code: .median().normalizedDifference(['NIR', 'Red'])
getSeasonalComposite(fromYear, toYear) ==
    LET w == filterDate(fromYear, toYear)
    IN normalizedDifference(Median2(Band(w, "NIR")), Median2(Band(w, "Red")))

(***************************************************************************)
(* 3. COMPUTE NDVI STATES                                                  *)
(***************************************************************************)
classifyNDVI_gt(ndvi) ==
    Where(Where(Where(4, Gt(ndvi, SPARSE), 3),
                Gt(ndvi, TRANSITIONAL), 2),
          Gt(ndvi, DENSE_CANOPY), 1)

classifyNDVI_flip(ndvi) ==
    Where(Where(Where(4, Gte(ndvi, SPARSE), 3),
                Gte(ndvi, TRANSITIONAL), 2),
          Lt(ndvi, DENSE_CANOPY), 1)

\* Vegetation class: 1=Dense, 2=Transitional, 3=Sparse, 4=Bare
classifyNDVI(ndvi) ==
    Where(Where(Where(4, Gte(ndvi, SPARSE), 3),
                Gte(ndvi, TRANSITIONAL), 2),
          Gte(ndvi, DENSE_CANOPY), 1)

\* The two composites are the medians of whatever observations the windows
\* hold: any NDVI value, or masked when a window has no clear observation.
ComputeStates ==
    /\ pc = "states"
    /\ \E s \in NdviVals, e \in NdviVals :
          /\ startNDVI' = s
          /\ endNDVI' = e
          /\ startClass' = classifyNDVI(s)
          /\ endClass' = classifyNDVI(e)
    /\ pc' = "trend"
    /\ UNCHANGED <<script, SENSITIVITY_ADJUSTMENT, startYear, endYear,
                   slope, pValue, recentSlope, trendClass, changeClass,
                   y, epochs, epochImgs, establishmentEpoch,
                   epochNDVI,
                   fullCollection,
                   yearsToThreshold,
                   yearsToCanopy,
                   image,
                   grid,
                   cur,
                   values,
                   clicks,
                   pending,
                   panel,
                   reforestationMask,
                   annualCollection,
                   finalRecoveryMap>>

\* The same statements, with the composites computed from the observations
\* the pixel has.
ComputeStatesObs ==
    /\ pc = "states"
    /\ LET s == getSeasonalComposite(startYear, startYear + 4)
           e == getSeasonalComposite(endYear - 4, endYear)
       IN /\ startNDVI' = s
          /\ endNDVI' = e
          /\ startClass' = classifyNDVI(s)
          /\ endClass' = classifyNDVI(e)
    /\ pc' = "trend"
    /\ UNCHANGED <<script, SENSITIVITY_ADJUSTMENT, startYear, endYear,
                   slope, pValue, recentSlope, trendClass, changeClass,
                   y, epochs, epochImgs, establishmentEpoch, epochNDVI,
                   fullCollection,
                   yearsToThreshold,
                   yearsToCanopy,
                   image,
                   grid,
                   cur,
                   values,
                   clicks,
                   pending,
                   panel,
                   reforestationMask,
                   annualCollection,
                   finalRecoveryMap>>

\* observations of one year, up to MaxObs of them
ReflVals == 1..MaxRefl

ObsOfYear(yr) == [year : {yr}, Red : ReflVals, NIR : ReflVals]

ObsSeqs(yr) == UNION {[1..n -> ObsOfYear(yr)] : n \in 0..MaxObs}

\* a pixel with up to MaxObs observations in its baseline window
InitComposite ==
    /\ script \in Scripts
    /\ SENSITIVITY_ADJUSTMENT = 0
    /\ startYear = BaseYear
    /\ endYear = BaseYear + 40
    /\ pc = "states"
    /\ fullCollection \in ObsSeqs(BaseYear)
    /\ startNDVI = NoData /\ endNDVI = NoData
    /\ startClass = NoData /\ endClass = NoData
    /\ slope = NoData /\ pValue = NoData /\ recentSlope = NoData
    /\ trendClass = NoData
    /\ changeClass = NoData
    /\ y = 0
    /\ epochs = <<>>
    /\ epochImgs = <<>>
    /\ establishmentEpoch = NoData
    /\ epochNDVI = <<>>
    /\ yearsToThreshold = NoData
    /\ yearsToCanopy = NoData
    /\ image = <<>>
    /\ grid = <<>>
    /\ cur = <<>>
    /\ values = <<>>
    /\ clicks = <<>>
    /\ pending = {}
    /\ panel = <<>>
    /\ reforestationMask = NoData
    /\ annualCollection = <<>>
    /\ finalRecoveryMap = NoData

NextComposite == ComputeStatesObs

SpecComposite == InitComposite /\ [][NextComposite]_vars

(***************************************************************************)
(* 4. TREND ANALYSIS                                                       *)
(***************************************************************************)
significantTrend(p) == Lt(p, SIGNIFICANCE_LEVEL)

trendClass9(sl) ==
    Where(Where(2, Gt(sl, GAINING_SLOPE), 1), Lt(sl, LOSING_SLOPE), 3)

trendClass8_ungated(sl, p) ==
    Where(Where(2, Gt(sl, GAINING_SLOPE), 1), Lt(sl, LOSING_SLOPE), 3)

\* Trend class: 1=Gaining, 2=Stable, 3=Losing
trendClass8(sl, p) ==
    Where(Where(2, And(Gt(sl, GAINING_SLOPE), significantTrend(p)), 1),
          And(Lt(sl, LOSING_SLOPE), significantTrend(p)), 3)

\* The fits are reducers over the pixel's observations: any slope, or masked
\* when the window holds too few observations.  The 9-class script computes
\* no p-value.
TrendAnalysis ==
    /\ pc = "trend"
    /\ \E sl \in SlopeVals, rs \in SlopeVals,
          p \in (IF script = "v8" THEN PVals ELSE {NoData}) :
          /\ slope' = sl
          /\ recentSlope' = rs
          /\ pValue' = p
          /\ trendClass' = IF script = "v8" THEN trendClass8(sl, p)
                                            ELSE trendClass9(sl)
    /\ pc' = "change"
    /\ UNCHANGED <<script, SENSITIVITY_ADJUSTMENT, startYear, endYear,
                   startNDVI, endNDVI, startClass, endClass, changeClass,
                   y, epochs, epochImgs, establishmentEpoch,
                   epochNDVI,
                   fullCollection,
                   yearsToThreshold,
                   yearsToCanopy,
                   image,
                   grid,
                   cur,
                   values,
                   clicks,
                   pending,
                   panel,
                   reforestationMask,
                   annualCollection,
                   finalRecoveryMap>>

(***************************************************************************)
(* 5. CHANGE CLASSIFICATION                                                *)
(* Each statement `changeClass = changeClass.where(guard, r)` is rule r;   *)
(* changeGuard9 / changeGuard8 give the test image of rule r, where cc is  *)
(* the value of changeClass when the statement runs.                       *)
(***************************************************************************)
\* Canopy Establishment: Sparse/Bare -> Dense
establishmentMask(sc, ec) == And(Gte(sc, 3), Eq(ec, 1))

changeGuard9_noguard(r, sc, ec, tc, cc) ==
    CASE r = 1 -> And(Eq(sc, 1), Gte(ec, 3))
      [] r = 2 -> And(And(Eq(sc, 1), Eq(ec, 2)), Eq(tc, 3))
      [] r = 3 -> And(And(Eq(sc, 3), Eq(ec, 2)), Eq(tc, 1))
      [] r = 4 -> And(And(Eq(sc, 2), Eq(ec, 1)), Eq(tc, 1))
      [] r = 5 -> And(And(Eq(sc, 1), Eq(ec, 1)), Eq(tc, 1))
      [] r = 6 -> establishmentMask(sc, ec)
      [] r = 7 -> And(Eq(sc, 3), Eq(ec, 2))
      [] r = 8 -> And(Eq(sc, 2), Eq(ec, 1))
      [] r = 9 -> And(Eq(sc, 1), Eq(ec, 2))

changeGuard9(r, sc, ec, tc, cc) ==
    CASE r = 1 -> And(Eq(sc, 1), Gte(ec, 3))
      [] r = 2 -> And(And(Eq(sc, 1), Eq(ec, 2)), Eq(tc, 3))
      [] r = 3 -> And(And(Eq(sc, 3), Eq(ec, 2)), Eq(tc, 1))
      [] r = 4 -> And(And(Eq(sc, 2), Eq(ec, 1)), Eq(tc, 1))
      [] r = 5 -> And(And(Eq(sc, 1), Eq(ec, 1)), Eq(tc, 1))
      [] r = 6 -> establishmentMask(sc, ec)
      [] r = 7 -> And(And(Eq(sc, 3), Eq(ec, 2)), Eq(cc, 0))
      [] r = 8 -> And(And(Eq(sc, 2), Eq(ec, 1)), Eq(cc, 0))
      [] r = 9 -> And(And(Eq(sc, 1), Eq(ec, 2)), Eq(cc, 0))

sparseStable(sc, ec) == And(Eq(sc, 3), Eq(ec, 3))
transStable(sc, ec) == And(Eq(sc, 2), Eq(ec, 2))
isGaining(tc, rs) == Or(Eq(tc, 1), Gt(rs, GAINING_SLOPE))

changeGuard8_overlap(r, sc, ec, tc, rs) ==
    CASE r = 1 -> And(Eq(sc, 1), Gte(ec, 3))
      [] r = 2 -> And(Eq(sc, 1), Eq(ec, 2))
      [] r = 3 -> And(Eq(sc, 3), Eq(ec, 2))
      [] r = 4 -> And(Eq(sc, 2), Eq(ec, 1))
      [] r = 5 -> And(And(Eq(sc, 1), Eq(ec, 1)), Eq(tc, 1))
      [] r = 6 -> And(Gte(sc, 2), Eq(ec, 1))
      [] r = 7 -> And(sparseStable(sc, ec), isGaining(tc, rs))
      [] r = 8 -> And(transStable(sc, ec), isGaining(tc, rs))

changeGuard8_lossSparseOnly(r, sc, ec, tc, rs) ==
    CASE r = 1 -> And(Eq(sc, 1), Eq(ec, 3))
      [] r = 2 -> And(Eq(sc, 1), Eq(ec, 2))
      [] r = 3 -> And(Eq(sc, 3), Eq(ec, 2))
      [] r = 4 -> And(Eq(sc, 2), Eq(ec, 1))
      [] r = 5 -> And(And(Eq(sc, 1), Eq(ec, 1)), Eq(tc, 1))
      [] r = 6 -> establishmentMask(sc, ec)
      [] r = 7 -> And(sparseStable(sc, ec), isGaining(tc, rs))
      [] r = 8 -> And(transStable(sc, ec), isGaining(tc, rs))

changeGuard8(r, sc, ec, tc, rs) ==
    CASE r = 1 -> And(Eq(sc, 1), Gte(ec, 3))
      [] r = 2 -> And(Eq(sc, 1), Eq(ec, 2))
      [] r = 3 -> And(Eq(sc, 3), Eq(ec, 2))
      [] r = 4 -> And(Eq(sc, 2), Eq(ec, 1))
      [] r = 5 -> And(And(Eq(sc, 1), Eq(ec, 1)), Eq(tc, 1))
      [] r = 6 -> establishmentMask(sc, ec)
      [] r = 7 -> And(sparseStable(sc, ec), isGaining(tc, rs))
      [] r = 8 -> And(transStable(sc, ec), isGaining(tc, rs))

NumRules == IF script = "v9" THEN 9 ELSE 8

\* test image of rule r for the pixel in hand
Guard(r, cc) ==
    IF script = "v9"
    THEN changeGuard9(r, startClass, endClass, trendClass, cc)
    ELSE changeGuard8(r, startClass, endClass, trendClass, recentSlope)

\* the statements of section 5 from rule r on, starting from value cc
RECURSIVE RunRules(_, _)
RunRules(r, cc) ==
    IF r > NumRules THEN cc
    ELSE RunRules(r + 1, Where(cc, Guard(r, cc), r))

ChangeClassification ==
    /\ pc = "change"
    /\ changeClass' = RunRules(1, 0)
    /\ pc' = "classified"
    /\ UNCHANGED <<script, SENSITIVITY_ADJUSTMENT, startYear, endYear,
                   startNDVI, endNDVI, startClass, endClass, slope, pValue,
                   recentSlope, trendClass, y, epochs, epochImgs,
                   establishmentEpoch,
                   epochNDVI,
                   fullCollection,
                   yearsToThreshold,
                   yearsToCanopy,
                   image,
                   grid,
                   cur,
                   values,
                   clicks,
                   pending,
                   panel,
                   reforestationMask,
                   annualCollection,
                   finalRecoveryMap>>

(***************************************************************************)
(* 7. TRAJECTORY PROJECTION                                                *)
(* Years are integers in steps of 1/YearScale, which every slope drawn     *)
(* divides: an NDVI difference of d units over a slope of s units is       *)
(* 50 * d / s years.  Section 6 is modelled on its own, in SpecEpoch.      *)
(***************************************************************************)
YearScale == LcmUpTo(GAINING_SLOPE + MaxSlopeExcess)

Years(n) == n * YearScale

yearsToThreshold_noclamp(ndvi, sl) ==
    Where(Where(Divide(Multiply(Abs(Subtract(ndvi, DENSE_CANOPY)),
                                50 * YearScale),
                       Abs(sl)),
                Lte(sl, 0), Years(9999)),
          Gte(ndvi, DENSE_CANOPY), 0)

\* endNDVI.subtract(DENSE_CANOPY).abs().divide(sl.abs())
\*   .where(sl.lte(0), 9999).where(endNDVI.gte(DENSE_CANOPY), 0).clamp(0, 50)
yearsToThresholdOf(ndvi, sl) ==
    Clamp(Where(Where(Divide(Multiply(Abs(Subtract(ndvi, DENSE_CANOPY)),
                                      50 * YearScale),
                             Abs(sl)),
                      Lte(sl, 0), Years(9999)),
                Gte(ndvi, DENSE_CANOPY), 0),
          0, Years(50))

projectionMask_trendOnly(tc, ec) == Eq(tc, 1)

\* trendClass.eq(1).and(endClass.gt(1))
projectionMask(tc, ec) == And(Eq(tc, 1), Gt(ec, 1))

\* the slope the projection divides by: the recent slope in the 8-class
\* script, the long-term slope in the 9-class script
ProjectionSlope == IF script = "v8" THEN recentSlope ELSE slope

TrajectoryProjection ==
    /\ pc = "classified"
    /\ LET ytt == yearsToThresholdOf(endNDVI, ProjectionSlope)
       IN /\ yearsToThreshold' = ytt
          /\ yearsToCanopy' = UpdateMask(ytt, projectionMask(trendClass, endClass))
    /\ pc' = "projected"
    /\ UNCHANGED <<script, SENSITIVITY_ADJUSTMENT, startYear, endYear,
                   startNDVI, endNDVI, startClass, endClass, slope, pValue,
                   recentSlope, trendClass, changeClass, y, epochs, epochImgs,
                   establishmentEpoch, epochNDVI, fullCollection,
                   image,
                   grid,
                   cur,
                   values,
                   clicks,
                   pending,
                   panel,
                   reforestationMask,
                   annualCollection,
                   finalRecoveryMap>>

(***************************************************************************)
(* The pixel pipeline: sections 1 to 5 of either script.                   *)
(***************************************************************************)
Init ==
    /\ script \in Scripts
    /\ SENSITIVITY_ADJUSTMENT \in AdjVals
    /\ startYear = BaseYear
    /\ endYear = BaseYear + 40
    /\ pc = "states"
    /\ startNDVI = NoData /\ endNDVI = NoData
    /\ startClass = NoData /\ endClass = NoData
    /\ slope = NoData /\ pValue = NoData /\ recentSlope = NoData
    /\ trendClass = NoData
    /\ changeClass = NoData
    /\ y = 0
    /\ epochs = <<>>
    /\ epochImgs = <<>>
    /\ establishmentEpoch = NoData
    /\ epochNDVI = <<>>
    /\ fullCollection = <<>>
    /\ yearsToThreshold = NoData
    /\ yearsToCanopy = NoData
    /\ image = <<>>
    /\ grid = <<>>
    /\ cur = <<>>
    /\ values = <<>>
    /\ clicks = <<>>
    /\ pending = {}
    /\ panel = <<>>
    /\ reforestationMask = NoData
    /\ annualCollection = <<>>
    /\ finalRecoveryMap = NoData

Next ==
    \/ ComputeStates
    \/ TrendAnalysis
    \/ ChangeClassification
    \/ TrajectoryProjection

Spec == Init /\ [][Next]_vars

(***************************************************************************)
(* 6. CANOPY ESTABLISHMENT EPOCHS                                          *)
(* The epoch tracker runs on a pixel whose two state classes are known.    *)
(* ToInt is not modelled: every value it is applied to is an integer.      *)
(***************************************************************************)
EpochFirstYear_baseline == startYear

\* for (var y = startYear + 5; ...
EpochFirstYear == startYear + EpochWidth

EpochLoopStart ==
    /\ pc = "epochs"
    /\ y' = EpochFirstYear
    /\ epochs' = <<>>
    /\ pc' = "epochLoop"
    /\ UNCHANGED <<script, SENSITIVITY_ADJUSTMENT, startYear, endYear,
                   startNDVI, endNDVI, startClass, endClass, slope, pValue,
                   recentSlope, trendClass, changeClass, epochImgs,
                   establishmentEpoch,
                   epochNDVI,
                   fullCollection,
                   yearsToThreshold,
                   yearsToCanopy,
                   image,
                   grid,
                   cur,
                   values,
                   clicks,
                   pending,
                   panel,
                   reforestationMask,
                   annualCollection,
                   finalRecoveryMap>>

Min2(a, b) == IF a <= b THEN a ELSE b

\* 9-class script: for (...; y <= endYear; y += 5) { eEnd = min(y+4, endYear) }
EpochLoop9 ==
    /\ pc = "epochLoop"
    /\ script = "v9"
    /\ y <= endYear
    /\ epochs' = Append(epochs,
                   [start |-> y, end |-> Min2(y + 4, endYear), label |-> y])
    /\ y' = y + EpochWidth
    /\ UNCHANGED <<script, SENSITIVITY_ADJUSTMENT, startYear, endYear, pc,
                   startNDVI, endNDVI, startClass, endClass, slope, pValue,
                   recentSlope, trendClass, changeClass, epochImgs,
                   establishmentEpoch,
                   epochNDVI,
                   fullCollection,
                   yearsToThreshold,
                   yearsToCanopy,
                   image,
                   grid,
                   cur,
                   values,
                   clicks,
                   pending,
                   panel,
                   reforestationMask,
                   annualCollection,
                   finalRecoveryMap>>

\* 8-class script: one pass of the loop body, either branch
EpochLoop8 ==
    /\ pc = "epochLoop"
    /\ script = "v8"
    /\ y <= endYear
    /\ LET nextStart == y + EpochWidth
           yearsRemaining == endYear - nextStart + 1
       IN IF yearsRemaining < MinTail
          THEN /\ epochs' = Append(epochs,
                              [start |-> y, end |-> endYear, label |-> y])
               /\ y' = y
               /\ pc' = "epochMap"
          ELSE /\ epochs' = Append(epochs,
                              [start |-> y, end |-> y + 4, label |-> y])
               /\ y' = y + EpochWidth
               /\ pc' = pc
    /\ UNCHANGED <<script, SENSITIVITY_ADJUSTMENT, startYear, endYear,
                   startNDVI, endNDVI, startClass, endClass, slope, pValue,
                   recentSlope, trendClass, changeClass, epochImgs,
                   establishmentEpoch,
                   epochNDVI,
                   fullCollection,
                   yearsToThreshold,
                   yearsToCanopy,
                   image,
                   grid,
                   cur,
                   values,
                   clicks,
                   pending,
                   panel,
                   reforestationMask,
                   annualCollection,
                   finalRecoveryMap>>

\* the loop condition y <= endYear fails
EpochLoopExit ==
    /\ pc = "epochLoop"
    /\ y > endYear
    /\ pc' = "epochMap"
    /\ UNCHANGED <<script, SENSITIVITY_ADJUSTMENT, startYear, endYear,
                   startNDVI, endNDVI, startClass, endClass, slope, pValue,
                   recentSlope, trendClass, changeClass, y, epochs, epochImgs,
                   establishmentEpoch,
                   epochNDVI,
                   fullCollection,
                   yearsToThreshold,
                   yearsToCanopy,
                   image,
                   grid,
                   cur,
                   values,
                   clicks,
                   pending,
                   panel,
                   reforestationMask,
                   annualCollection,
                   finalRecoveryMap>>

\* composites a bin can have
BinVals == {NoData, DENSE_CANOPY - 1, DENSE_CANOPY}

\* img.gte(DENSE_CANOPY).multiply(epoch.label).selfMask()
epochImage(img, label) == SelfMask(Multiply(Gte(img, DENSE_CANOPY), label))

\* the callback of epochs.map, for the next epoch of the array
EpochMap ==
    /\ pc = "epochMap"
    /\ Len(epochImgs) < Len(epochs)
    /\ \E img \in BinVals :
          /\ epochNDVI' = Append(epochNDVI, img)
          /\ epochImgs' = Append(epochImgs,
                            epochImage(img, epochs[Len(epochImgs) + 1].label))
    /\ UNCHANGED <<script, SENSITIVITY_ADJUSTMENT, startYear, endYear, pc,
                   startNDVI, endNDVI, startClass, endClass, slope, pValue,
                   recentSlope, trendClass, changeClass, y, epochs,
                   establishmentEpoch,
                   fullCollection,
                   yearsToThreshold,
                   yearsToCanopy,
                   image,
                   grid,
                   cur,
                   values,
                   clicks,
                   pending,
                   panel,
                   reforestationMask,
                   annualCollection,
                   finalRecoveryMap>>

\* 8-class script: startClass.gte(2).and(endClass.eq(1))
epochValidMask_endOnly(sc, ec) == Eq(ec, 1)

epochValidMask(sc, ec) == And(Gte(sc, 2), Eq(ec, 1))

\* epochCollection.min().updateMask(mask)
EpochReduce ==
    /\ pc = "epochMap"
    /\ Len(epochImgs) = Len(epochs)
    /\ establishmentEpoch' =
          UpdateMask(CollectionMin(epochImgs),
                     IF script = "v8" THEN epochValidMask(startClass, endClass)
                     ELSE establishmentMask(startClass, endClass))
    /\ pc' = "epochDone"
    /\ UNCHANGED <<script, SENSITIVITY_ADJUSTMENT, startYear, endYear,
                   startNDVI, endNDVI, startClass, endClass, slope, pValue,
                   recentSlope, trendClass, changeClass, y, epochs, epochImgs,
                   epochNDVI,
                   fullCollection,
                   yearsToThreshold,
                   yearsToCanopy,
                   image,
                   grid,
                   cur,
                   values,
                   clicks,
                   pending,
                   panel,
                   reforestationMask,
                   annualCollection,
                   finalRecoveryMap>>

\* one composite of each vegetation class, and a masked one
ClassNdviVals == {NoData, SPARSE - 1, SPARSE, TRANSITIONAL, DENSE_CANOPY}

InitEpoch ==
    /\ script \in Scripts
    /\ SENSITIVITY_ADJUSTMENT \in AdjVals
    /\ startYear = BaseYear
    /\ endYear \in startYear..(startYear + MaxSpan)
    /\ pc = "epochs"
    /\ startNDVI \in ClassNdviVals
    /\ endNDVI \in ClassNdviVals
    /\ startClass = classifyNDVI(startNDVI)
    /\ endClass = classifyNDVI(endNDVI)
    /\ slope = NoData /\ pValue = NoData /\ recentSlope = NoData
    /\ trendClass = NoData
    /\ changeClass = NoData
    /\ y = 0
    /\ epochs = <<>>
    /\ epochImgs = <<>>
    /\ establishmentEpoch = NoData
    /\ epochNDVI = <<>>
    /\ fullCollection = <<>>
    /\ yearsToThreshold = NoData
    /\ yearsToCanopy = NoData
    /\ image = <<>>
    /\ grid = <<>>
    /\ cur = <<>>
    /\ values = <<>>
    /\ clicks = <<>>
    /\ pending = {}
    /\ panel = <<>>
    /\ reforestationMask = NoData
    /\ annualCollection = <<>>
    /\ finalRecoveryMap = NoData

NextEpoch ==
    \/ EpochLoopStart
    \/ EpochLoop9
    \/ EpochLoop8
    \/ EpochLoopExit
    \/ EpochMap
    \/ EpochReduce

SpecEpoch == InitEpoch /\ [][NextEpoch]_vars

\* the script is straight-line code: it runs until it has nothing left to do
SpecEpochFair == SpecEpoch /\ WF_vars(NextEpoch)

(***************************************************************************)
(* Section 6 on a pixel whose observations are known: the end composite    *)
(* and the composite of every epoch come from the same observations.       *)
(***************************************************************************)
\* the callback of epochs.map, for the next epoch of the array
EpochMapObs ==
    /\ pc = "epochMap"
    /\ Len(epochImgs) < Len(epochs)
    /\ LET epoch == epochs[Len(epochImgs) + 1]
           img == getSeasonalComposite(epoch.start, epoch.end)
       IN /\ epochNDVI' = Append(epochNDVI, img)
          /\ epochImgs' = Append(epochImgs, epochImage(img, epoch.label))
    /\ UNCHANGED <<script, SENSITIVITY_ADJUSTMENT, startYear, endYear, pc,
                   startNDVI, endNDVI, startClass, endClass, slope, pValue,
                   recentSlope, trendClass, changeClass, y, epochs,
                   establishmentEpoch, fullCollection,
                   yearsToThreshold,
                   yearsToCanopy,
                   image,
                   grid,
                   cur,
                   values,
                   clicks,
                   pending,
                   panel,
                   reforestationMask,
                   annualCollection,
                   finalRecoveryMap>>

\* what a year can hold: no clear observation, or one clear observation of
\* NDVI 0.2 (Red 2, NIR 3) or of NDVI 0.6 (Red 1, NIR 4)
ObsKinds == {"none", "sparse", "dense"}

ObsOfKind(yr, k) ==
    IF k = "sparse" THEN [year |-> yr, Red |-> 2, NIR |-> 3]
    ELSE [year |-> yr, Red |-> 1, NIR |-> 4]

\* the observations of the years from..to, in time order
RECURSIVE CollectionOf(_, _, _)
CollectionOf(h, from, to) ==
    IF from > to THEN <<>>
    ELSE (IF h[from] = "none" THEN <<>> ELSE <<ObsOfKind(from, h[from])>>)
         \o CollectionOf(h, from + 1, to)

InitHistory ==
    /\ script \in Scripts
    /\ SENSITIVITY_ADJUSTMENT = 0
    /\ startYear = BaseYear
    /\ endYear \in (startYear + 5)..(startYear + MaxHistSpan)
    /\ pc = "epochs"
    /\ \E b \in ObsKinds, h \in [(startYear + 5)..endYear -> ObsKinds] :
          fullCollection =
              (IF b = "none" THEN <<>> ELSE <<ObsOfKind(startYear, b)>>)
              \o CollectionOf(h, startYear + 5, endYear)
    /\ startNDVI = getSeasonalComposite(startYear, startYear + 4)
    /\ endNDVI = getSeasonalComposite(endYear - 4, endYear)
    /\ startClass = classifyNDVI(startNDVI)
    /\ endClass = classifyNDVI(endNDVI)
    /\ slope = NoData /\ pValue = NoData /\ recentSlope = NoData
    /\ trendClass = NoData
    /\ changeClass = NoData
    /\ y = 0
    /\ epochs = <<>>
    /\ epochImgs = <<>>
    /\ establishmentEpoch = NoData
    /\ epochNDVI = <<>>
    /\ yearsToThreshold = NoData
    /\ yearsToCanopy = NoData
    /\ image = <<>>
    /\ grid = <<>>
    /\ cur = <<>>
    /\ values = <<>>
    /\ clicks = <<>>
    /\ pending = {}
    /\ panel = <<>>
    /\ reforestationMask = NoData
    /\ annualCollection = <<>>
    /\ finalRecoveryMap = NoData

NextHistory ==
    \/ EpochLoopStart
    \/ EpochLoop9
    \/ EpochLoop8
    \/ EpochLoopExit
    \/ EpochMapObs
    \/ EpochReduce

SpecHistory == InitHistory /\ [][NextHistory]_vars

(***************************************************************************)
(* Properties of the classification (sections 3 to 5).                     *)
(***************************************************************************)
Classified == pc \in {"classified", "projected"}
StatesKnown == pc \in {"trend", "change", "classified", "projected"}
TrendKnown == pc \in {"change", "classified", "projected"}

\* the rules whose test image is 1 when their statement runs, from rule r on
RECURSIVE FiredRules(_, _)
FiredRules(r, cc) ==
    IF r > NumRules THEN {}
    ELSE (IF Guard(r, cc) = 1 THEN {r} ELSE {})
         \cup FiredRules(r + 1, Where(cc, Guard(r, cc), r))

\* the rules in listed order, stopping at the first whose guard holds
RECURSIVE FirstMatch(_)
FirstMatch(r) ==
    IF r > NumRules THEN 0
    ELSE IF Guard(r, 0) = 1 THEN r
    ELSE FirstMatch(r + 1)

\* C1: in both scripts at most one change-class rule guard is true for a
\* pixel, and a pixel for which none is true ends with change class 0.
C1_RulesExclusive ==
    Classified =>
        /\ Cardinality(FiredRules(1, 0)) <= 1
        /\ (FiredRules(1, 0) = {} => changeClass = 0)

\* a 9-class pixel where rule 3 fired and the edge rule 7 of the same
\* transition did not
C1_Witness ==
    /\ Classified
    /\ script = "v9"
    /\ startClass = 3 /\ endClass = 2 /\ trendClass = 1
    /\ FiredRules(1, 0) = {3}

\* C2: the change class left by the successive where() overwrites equals the
\* class of the first rule, in listed order, whose guard holds (0 if none).
C2_OverwriteIsFirstMatch == Classified => changeClass = FirstMatch(1)

C2_Witness ==
    /\ Classified
    /\ script = "v9"
    /\ changeClass = 9
    /\ trendClass = 2

\* C3: a pixel whose baseline or end composite is NoData has a NoData state
\* class there (never Bare) and a NoData change class (never 0..9).
C3_NoDataPropagates ==
    Classified =>
        /\ (startNDVI = NoData => startClass = NoData /\ changeClass = NoData)
        /\ (endNDVI = NoData => endClass = NoData /\ changeClass = NoData)

\* the cascade of section 4.3 of the specification
Cascade(ndvi) ==
    IF ndvi >= DENSE_CANOPY THEN 1
    ELSE IF ndvi >= TRANSITIONAL THEN 2
    ELSE IF ndvi >= SPARSE THEN 3
    ELSE 4

\* C4: for every defined NDVI the three where() overwrites of classifyNDVI
\* give the class of the >= cascade; a value equal to a threshold is in the
\* higher-density class.
C4_ClassifyIsCascade ==
    StatesKnown =>
        /\ (startNDVI # NoData => startClass = Cascade(startNDVI))
        /\ (endNDVI # NoData => endClass = Cascade(endNDVI))
        /\ (startNDVI = DENSE_CANOPY => startClass = 1)
        /\ (startNDVI = TRANSITIONAL => startClass = 2)
        /\ (startNDVI = SPARSE => startClass = 3)

C4_Witness ==
    /\ StatesKnown
    /\ startNDVI = TRANSITIONAL /\ startClass = 2
    /\ endNDVI = SPARSE - 1 /\ endClass = 4

\* C5: classifyNDVI is monotonic: of two defined composites classified with
\* the same SENSITIVITY_ADJUSTMENT, the lower NDVI never gets the denser
\* (numerically smaller) class.
C5_ClassifyMonotonic ==
    StatesKnown /\ startNDVI # NoData /\ endNDVI # NoData =>
        /\ (startNDVI < endNDVI => startClass >= endClass)
        /\ (endNDVI < startNDVI => endClass >= startClass)

C5_Witness ==
    /\ StatesKnown
    /\ SENSITIVITY_ADJUSTMENT = 1
    /\ startNDVI # NoData /\ endNDVI # NoData
    /\ startNDVI < endNDVI
    /\ startClass = 4 /\ endClass = 1

\* C6: in the 8-class script trendClass is Gaining exactly when
\* slope > 0.005 and p < 0.05, Losing exactly when slope < -0.005 and
\* p < 0.05, and Stable otherwise.
C6_TrendGated ==
    TrendKnown /\ script = "v8" =>
        LET sig == pValue # NoData /\ pValue < SIGNIFICANCE_LEVEL
            up == slope # NoData /\ slope > GAINING_SLOPE
            down == slope # NoData /\ slope < LOSING_SLOPE
        IN /\ (trendClass = 1 <=> up /\ sig)
           /\ (trendClass = 3 <=> down /\ sig)
           /\ (trendClass = 2 <=> ~((up \/ down) /\ sig))

\* a steep slope that is not significant is Stable
C6_Witness ==
    /\ TrendKnown
    /\ script = "v8"
    /\ slope # NoData /\ slope > GAINING_SLOPE
    /\ pValue = SIGNIFICANCE_LEVEL
    /\ trendClass = 2

\* C7: in both scripts, whatever the trend and the recent slope, Dense to
\* Sparse or Bare is change class 1 and Sparse or Bare to Dense is class 6.
C7_LossAndEstablishment ==
    Classified =>
        /\ (startClass = 1 /\ endClass \in {3, 4} => changeClass = 1)
        /\ (startClass \in {3, 4} /\ endClass = 1 => changeClass = 6)

\* baseline 0.65, end 0.35 with a losing trend in the 8-class script
C7_Witness ==
    /\ Classified
    /\ script = "v8"
    /\ SENSITIVITY_ADJUSTMENT = 0
    /\ startNDVI = 13 /\ endNDVI = 7
    /\ trendClass = 3
    /\ changeClass = 1

\* C8: in the 9-class script an edge class (7, 8, 9) is assigned only to a
\* pixel whose long-term trend class is Stable.
C8_EdgeOnlyStable ==
    Classified /\ script = "v9" /\ changeClass \in {7, 8, 9} => trendClass = 2

\* C9: in the 8-class script every pixel of class 5, 7 or 8 has a significant
\* long-term gaining trend: p < 0.05 and slope > 0.005.
C9_TrendClassesSignificant ==
    Classified /\ script = "v8" /\ changeClass \in {5, 7, 8} =>
        /\ pValue # NoData /\ pValue < SIGNIFICANCE_LEVEL
        /\ slope # NoData /\ slope > GAINING_SLOPE

(***************************************************************************)
(* Properties of the epoch tracker (section 6).                            *)
(***************************************************************************)
\* C10: the epoch tracker never gives a label below startYear + 5, and never
\* labels a pixel that fails the mask (8-class: start non-Dense and end
\* Dense; 9-class: start Sparse or Bare and end Dense).
C10_EpochLabelSound ==
    /\ \A i \in 1..Len(epochImgs) :
          epochImgs[i] # NoData => epochImgs[i] >= startYear + 5
    /\ (pc = "epochDone" /\ establishmentEpoch # NoData =>
          /\ establishmentEpoch >= startYear + 5
          /\ endClass = 1
          /\ (script = "v8" => startClass \in {2, 3, 4})
          /\ (script = "v9" => startClass \in {3, 4}))

\* a labelled pixel whose first bin was below the threshold
C10_Witness ==
    /\ pc = "epochDone"
    /\ Len(epochImgs) >= 2
    /\ epochImgs[1] = NoData
    /\ establishmentEpoch = startYear + 10

\* the bins, in array order, whose composite reaches the dense threshold
DenseBins ==
    {i \in 1..Len(epochNDVI) :
        epochNDVI[i] # NoData /\ epochNDVI[i] >= DENSE_CANOPY}

EpochMaskPasses ==
    /\ endClass = 1
    /\ IF script = "v8" THEN startClass \in {2, 3, 4} ELSE startClass \in {3, 4}

\* C11: for a pixel that passes the epoch mask, establishmentEpoch is the
\* label of the earliest bin whose composite is >= DENSE_CANOPY, whatever the
\* later bins are, and NoData if no bin reaches the threshold.
C11_EarliestDenseBin ==
    pc = "epochDone" /\ EpochMaskPasses =>
        IF DenseBins = {} THEN establishmentEpoch = NoData
        ELSE \E i \in DenseBins :
                /\ \A j \in DenseBins : i <= j
                /\ establishmentEpoch = epochs[i].label

\* dense in the first bin, below the threshold in the second, dense again
C11_Witness ==
    /\ pc = "epochDone"
    /\ EpochMaskPasses
    /\ Len(epochNDVI) = 3
    /\ DenseBins = {1, 3}
    /\ establishmentEpoch = startYear + 5

BinWidth(i) == epochs[i].end - epochs[i].start + 1

EpochLoopOver == pc \in {"epochMap", "epochDone"}

\* the bins of the 8-class script partition startYear+5 .. endYear
C12_Partition ==
    EpochLoopOver /\ script = "v8" /\ endYear >= startYear + 5 =>
        /\ Len(epochs) >= 1
        /\ epochs[1].start = startYear + 5
        /\ epochs[Len(epochs)].end = endYear
        /\ \A i \in 1..(Len(epochs) - 1) :
              /\ epochs[i + 1].start = epochs[i].end + 1
              /\ BinWidth(i) = 5
              /\ endYear - epochs[i].end >= 3
        /\ \A i \in 1..Len(epochs) : epochs[i].label = epochs[i].start

\* C12: for endYear >= startYear + 5 the epoch loop of the 8-class script
\* terminates and its bins partition the post-baseline years: the first
\* starts at startYear + 5, the last ends at endYear, consecutive bins are
\* contiguous, every non-final bin is 5 years wide, and a separate final bin
\* exists only when at least 3 years remain after the bin before it.
C12_EpochBinsPartition ==
    /\ [](C12_Partition)
    /\ <>(script = "v8" => EpochLoopOver)

\* one standard bin followed by a final bin that absorbed a 2-year remainder
C12_Witness ==
    /\ pc = "epochDone"
    /\ script = "v8"
    /\ Len(epochs) = 2
    /\ BinWidth(1) = 5
    /\ BinWidth(2) = 7
    /\ epochs[2].end = endYear

(***************************************************************************)
(* Properties of the compositor.                                           *)
(***************************************************************************)
\* every NDVI of reflectances in ReflVals, and every mean of two of them, is
\* a whole number of 1/NdScale
NdScale == 2 * LcmUpTo(2 * MaxRefl)

\* the exact NDVI (NIR-Red)/(NIR+Red) of every observation, in 1/NdScale
PerObservationNDVI(w) ==
    [i \in 1..Len(w) |->
        (NdScale * (w[i].NIR - w[i].Red)) \div (w[i].NIR + w[i].Red)]

\* the median of the per-observation NDVI, in NDVI units of 0.05 rounded down
MedianOfNDVI(w) == (20 * Median2(PerObservationNDVI(w))) \div (2 * NdScale)

BaselineWindow == filterDate(startYear, startYear + 4)

\* C17: for every non-empty set of observations of a window the composite
\* equals the median of the per-observation NDVI values of the set.
C17_CompositeIsMedianNDVI ==
    StatesKnown /\ BaselineWindow # <<>> =>
        startNDVI = MedianOfNDVI(BaselineWindow)

\* C13: in the 8-class script every pixel whose start state is non-Dense
\* and whose end-window composite is Dense (Establishment or Maturation) has
\* a defined epoch label.
C13_GainHasEpoch ==
    pc = "epochDone" /\ script = "v8"
        /\ startClass \in {2, 3, 4} /\ endClass = 1 =>
            establishmentEpoch # NoData

(***************************************************************************)
(* 4. TREND ANALYSIS over a drawn history.  The slope is the least-squares *)
(* slope of per-observation NDVI against time, in steps of 0.001 per year  *)
(* rounded away from zero; a regression over fewer than two usable points  *)
(* has no slope.  The p-value of Kendall's test is drawn.                  *)
(***************************************************************************)
MaxTrendSpan == 4    \* the trend window is startYear..startYear + MaxTrendSpan

\* the (t, NDVI) points of a collection with an unmasked NDVI
TrendPoints(w) ==
    LET pts == [i \in 1..Len(w) |->
                  [t |-> w[i].year - startYear,
                   NDVI |-> normalizedDifference(w[i].NIR, w[i].Red)]]
        Usable(q) == q.NDVI # NoData
    IN SelectSeq(pts, Usable)

\* ee.Reducer.linearFit(), band 'scale'
linearFitScale(w) ==
    LET pts == TrendPoints(w)
        n   == Len(pts)
        st  == SumSeq([i \in 1..n |-> pts[i].t])
        sy  == SumSeq([i \in 1..n |-> pts[i].NDVI])
        stt == SumSeq([i \in 1..n |-> pts[i].t * pts[i].t])
        sty == SumSeq([i \in 1..n |-> pts[i].t * pts[i].NDVI])
        den == n * stt - st * st
    IN IF n < 2 \/ den = 0 THEN NoData
       ELSE RoundAway(50 * (n * sty - st * sy), den)

recentYearStart == endYear - 10

TrendAnalysisObs ==
    /\ pc = "trend"
    /\ LET sl == linearFitScale(filterDate(startYear, endYear))
       IN \E p \in (IF script = "v8" THEN PVals ELSE {NoData}) :
             /\ slope' = sl
             /\ recentSlope' = linearFitScale(filterDate(recentYearStart, endYear))
             /\ pValue' = p
             /\ trendClass' = IF script = "v8" THEN trendClass8(sl, p)
                                               ELSE trendClass9(sl)
    /\ pc' = "change"
    /\ UNCHANGED <<script, SENSITIVITY_ADJUSTMENT, startYear, endYear,
                   startNDVI, endNDVI, startClass, endClass, changeClass,
                   y, epochs, epochImgs, establishmentEpoch, epochNDVI,
                   fullCollection, yearsToThreshold, yearsToCanopy,
                   image,
                   grid,
                   cur,
                   values,
                   clicks,
                   pending,
                   panel,
                   reforestationMask,
                   annualCollection,
                   finalRecoveryMap>>

InitTrend ==
    /\ script \in Scripts
    /\ SENSITIVITY_ADJUSTMENT = 0
    /\ startYear = BaseYear
    /\ endYear = startYear + MaxTrendSpan
    /\ pc = "trend"
    /\ \E h \in [startYear..endYear -> ObsKinds] :
          fullCollection = CollectionOf(h, startYear, endYear)
    /\ startNDVI = getSeasonalComposite(startYear, startYear + 4)
    /\ endNDVI = getSeasonalComposite(endYear - 4, endYear)
    /\ startClass = classifyNDVI(startNDVI)
    /\ endClass = classifyNDVI(endNDVI)
    /\ slope = NoData /\ pValue = NoData /\ recentSlope = NoData
    /\ trendClass = NoData
    /\ changeClass = NoData
    /\ y = 0
    /\ epochs = <<>>
    /\ epochImgs = <<>>
    /\ establishmentEpoch = NoData
    /\ epochNDVI = <<>>
    /\ yearsToThreshold = NoData
    /\ yearsToCanopy = NoData
    /\ image = <<>>
    /\ grid = <<>>
    /\ cur = <<>>
    /\ values = <<>>
    /\ clicks = <<>>
    /\ pending = {}
    /\ panel = <<>>
    /\ reforestationMask = NoData
    /\ annualCollection = <<>>
    /\ finalRecoveryMap = NoData

NextTrend == TrendAnalysisObs

SpecTrend == InitTrend /\ [][NextTrend]_vars

\* number of usable observations of the trend window
UsableObservations == Len(TrendPoints(filterDate(startYear, endYear)))

\* C19: a pixel with fewer than two usable observations in the trend window
\* has a NoData slope and a NoData trend class, never Stable (2).
C19_FewObservationsNoTrend ==
    pc = "change" /\ UsableObservations < 2 =>
        slope = NoData /\ trendClass = NoData

(***************************************************************************)
(* 1. CONFIGURATION followed by section 3, for an endYear on either side   *)
(* of startYear.  The scripts go from the configuration variables straight *)
(* to the collections and composites; the baseline window                  *)
(* startYear..startYear+4 and the end window endYear-4..endYear are date   *)
(* ranges of five years whatever the two years are.                        *)
(***************************************************************************)
MaxConfigSpan == 2   \* endYear ranges over startYear -+ MaxConfigSpan

InitConfig ==
    /\ script \in Scripts
    /\ SENSITIVITY_ADJUSTMENT = 0
    /\ startYear = BaseYear
    /\ endYear \in (startYear - MaxConfigSpan)..(startYear + MaxConfigSpan)
    /\ pc = "states"
    /\ \E h \in [(startYear - MaxConfigSpan)..(startYear + MaxConfigSpan)
                   -> ObsKinds] :
          fullCollection = CollectionOf(h, startYear - MaxConfigSpan,
                                        startYear + MaxConfigSpan)
    /\ startNDVI = NoData /\ endNDVI = NoData
    /\ startClass = NoData /\ endClass = NoData
    /\ slope = NoData /\ pValue = NoData /\ recentSlope = NoData
    /\ trendClass = NoData
    /\ changeClass = NoData
    /\ y = 0
    /\ epochs = <<>>
    /\ epochImgs = <<>>
    /\ establishmentEpoch = NoData
    /\ epochNDVI = <<>>
    /\ yearsToThreshold = NoData
    /\ yearsToCanopy = NoData
    /\ image = <<>>
    /\ grid = <<>>
    /\ cur = <<>>
    /\ values = <<>>
    /\ clicks = <<>>
    /\ pending = {}
    /\ panel = <<>>
    /\ reforestationMask = NoData
    /\ annualCollection = <<>>
    /\ finalRecoveryMap = NoData

NextConfig == ComputeStatesObs

SpecConfig == InitConfig /\ [][NextConfig]_vars

\* C18: a configuration with a negative window width (endYear < startYear)
\* is rejected before any pixel is classified: no stage runs and no class is
\* produced from it.
C18_InvalidConfigurationRejected ==
    endYear < startYear =>
        pc = "states" /\ startClass = NoData /\ endClass = NoData

(***************************************************************************)
(* Properties of the trajectory projection (section 7).                    *)
(***************************************************************************)
Projected == pc = "projected"

\* C14: for every end NDVI and every slope (zero and negative included) the
\* projection layer yearsToCanopy is masked or a value in [0, 50], in both
\* scripts.
C14_ProjectionInRange ==
    Projected =>
        /\ yearsToCanopy = NoData
              \/ (0 <= yearsToCanopy /\ yearsToCanopy <= Years(50))
        /\ yearsToThreshold = NoData
              \/ (0 <= yearsToThreshold /\ yearsToThreshold <= Years(50))

\* a projection of 100 years (0.10 to 0.60 at 0.005/yr) cut down to 50
C14_Witness ==
    /\ Projected
    /\ script = "v8"
    /\ SENSITIVITY_ADJUSTMENT = 0
    /\ endNDVI = 2
    /\ recentSlope = GAINING_SLOPE
    /\ yearsToCanopy = Years(50)

\* C15: whenever the slope the projector divides by is non-positive, the
\* projected years are masked (recent slope in the 8-class script, long-term
\* slope in the 9-class script).
C15_NonPositiveSlopeMasked ==
    Projected /\ ProjectionSlope # NoData /\ ProjectionSlope <= 0 =>
        yearsToCanopy = NoData

\* C16: yearsToCanopy is defined only for pixels whose long-term trend class
\* is Gaining and whose end state class is below Dense; for a Dense end state
\* the projection is masked.
C16_ProjectionOnlyGainingBelowDense ==
    Projected =>
        /\ (yearsToCanopy # NoData =>
              trendClass = 1 /\ endClass \in {2, 3, 4})
        /\ (endClass = 1 => yearsToCanopy = NoData)

\* baseline 0.65, end 0.65, slope +0.006/yr: Densification, no projection
C16_Witness ==
    /\ Projected
    /\ SENSITIVITY_ADJUSTMENT = 0
    /\ startNDVI = 13 /\ endNDVI = 13
    /\ slope = 6
    /\ changeClass = 5
    /\ yearsToThreshold = 0
    /\ yearsToCanopy = NoData

(***************************************************************************)
(* The pipeline over a grid.  Every image of the scripts is a grid of      *)
(* pixels and every operation of sections 3 to 7 works pixel by pixel, so  *)
(* the pipeline is run for one pixel at a time, in any order.  Two runs    *)
(* are kept side by side: they hold the same history for pixel 1 and any   *)
(* histories for pixel 2.  Sections 6 and 7 do not use each other's        *)
(* results; section 7 is run first.                                        *)
(***************************************************************************)
GridSpan == 5        \* endYear is startYear + GridSpan
GridMidYear == 3     \* a year with observations inside both windows

Runs == {"a", "b"}
Pixels == {1, 2}
Items == Runs \X Pixels

GridYears == {startYear, startYear + GridMidYear, endYear}

\* a neighbour holds the same kind of observation in each of its years
NeighbourHistories == {[yr \in GridYears |-> k] : k \in ObsKinds}

\* grid[it] is empty until the record of the pixel is stored
Pending == {}

\* fullCollection at a pixel: the pixel's own clear observations, gaps
\* filled from the other pixel of the grid
PixelCollection_filled(r, p) ==
    LET own == image[r][p].obs
        other == image[r][3 - p].obs
        h == [yr \in GridYears |-> IF own[yr] = "none" THEN other[yr]
                                   ELSE own[yr]]
    IN CollectionOf(h, startYear, startYear)
       \o CollectionOf(h, startYear + GridMidYear, startYear + GridMidYear)
       \o CollectionOf(h, endYear, endYear)

\* fullCollection at a pixel: the pixel's own clear observations
PixelCollection(r, p) ==
    LET h == image[r][p].obs
    IN CollectionOf(h, startYear, startYear)
       \o CollectionOf(h, startYear + GridMidYear, startYear + GridMidYear)
       \o CollectionOf(h, endYear, endYear)

LoadPixel ==
    /\ pc = "idle"
    /\ \E it \in Items :
          /\ grid[it] = Pending
          /\ cur' = it
          /\ fullCollection' = PixelCollection(it[1], it[2])
    /\ pc' = "states"
    /\ UNCHANGED <<script, SENSITIVITY_ADJUSTMENT, startYear, endYear,
                   startNDVI, endNDVI, startClass, endClass, slope, pValue,
                   recentSlope, trendClass, changeClass, y, epochs, epochImgs,
                   establishmentEpoch, epochNDVI, yearsToThreshold,
                   yearsToCanopy, image, grid,
                   values,
                   clicks,
                   pending,
                   panel,
                   reforestationMask,
                   annualCollection,
                   finalRecoveryMap>>

\* section 4 for the pixel at hand; the p-value of Kendall's test is part
\* of what is drawn for the pixel
TrendAnalysisGrid ==
    /\ pc = "trend"
    /\ cur # <<>>
    /\ LET sl == linearFitScale(filterDate(startYear, endYear))
           p == IF script = "v8" THEN image[cur[1]][cur[2]].p ELSE NoData
       IN /\ slope' = sl
          /\ recentSlope' = linearFitScale(filterDate(recentYearStart, endYear))
          /\ pValue' = p
          /\ trendClass' = IF script = "v8" THEN trendClass8(sl, p)
                                            ELSE trendClass9(sl)
    /\ pc' = "change"
    /\ UNCHANGED <<script, SENSITIVITY_ADJUSTMENT, startYear, endYear,
                   startNDVI, endNDVI, startClass, endClass, changeClass,
                   y, epochs, epochImgs, establishmentEpoch, epochNDVI,
                   fullCollection, yearsToThreshold, yearsToCanopy,
                   image, grid, cur,
                   values,
                   clicks,
                   pending,
                   panel,
                   reforestationMask,
                   annualCollection,
                   finalRecoveryMap>>

EpochStage ==
    /\ pc = "projected"
    /\ cur # <<>>
    /\ pc' = "epochs"
    /\ UNCHANGED <<script, SENSITIVITY_ADJUSTMENT, startYear, endYear,
                   startNDVI, endNDVI, startClass, endClass, slope, pValue,
                   recentSlope, trendClass, changeClass, y, epochs, epochImgs,
                   establishmentEpoch, epochNDVI, fullCollection,
                   yearsToThreshold, yearsToCanopy, image, grid, cur,
                   values,
                   clicks,
                   pending,
                   panel,
                   reforestationMask,
                   annualCollection,
                   finalRecoveryMap>>

\* the bands read for a pixel
PixelRecord ==
    [start_class |-> startClass, end_class |-> endClass,
     trend_class |-> trendClass, change_class |-> changeClass,
     slope |-> slope, recent_slope |-> recentSlope,
     current_ndvi |-> endNDVI, epoch |-> establishmentEpoch,
     years_proj |-> yearsToCanopy]

StorePixel ==
    /\ pc = "epochDone"
    /\ cur # <<>>
    /\ grid' = [grid EXCEPT ![cur] = {PixelRecord}]
    /\ cur' = <<>>
    /\ pc' = "idle"
    /\ fullCollection' = <<>>
    /\ startNDVI' = NoData /\ endNDVI' = NoData
    /\ startClass' = NoData /\ endClass' = NoData
    /\ slope' = NoData /\ pValue' = NoData /\ recentSlope' = NoData
    /\ trendClass' = NoData
    /\ changeClass' = NoData
    /\ y' = 0
    /\ epochs' = <<>>
    /\ epochImgs' = <<>>
    /\ establishmentEpoch' = NoData
    /\ epochNDVI' = <<>>
    /\ yearsToThreshold' = NoData
    /\ yearsToCanopy' = NoData
    /\ UNCHANGED <<script, SENSITIVITY_ADJUSTMENT, startYear, endYear, image,
                   values,
                   clicks,
                   pending,
                   panel,
                   reforestationMask,
                   annualCollection,
                   finalRecoveryMap>>

InitGrid ==
    /\ script \in Scripts
    /\ SENSITIVITY_ADJUSTMENT = 0
    /\ startYear = BaseYear
    /\ endYear = startYear + GridSpan
    /\ pc = "idle"
    /\ \E h1 \in [GridYears -> ObsKinds], p1 \in PVals,
          ha \in NeighbourHistories, hb \in NeighbourHistories,
          p2 \in PVals :
          image = [r \in Runs |->
                     [p \in Pixels |->
                        IF p = 1 THEN [obs |-> h1, p |-> p1]
                        ELSE [obs |-> IF r = "a" THEN ha ELSE hb, p |-> p2]]]
    /\ script = "v9" =>
          \A r \in Runs, p \in Pixels : image[r][p].p = NoData
    /\ grid = [it \in Items |-> Pending]
    /\ cur = <<>>
    /\ fullCollection = <<>>
    /\ startNDVI = NoData /\ endNDVI = NoData
    /\ startClass = NoData /\ endClass = NoData
    /\ slope = NoData /\ pValue = NoData /\ recentSlope = NoData
    /\ trendClass = NoData
    /\ changeClass = NoData
    /\ y = 0
    /\ epochs = <<>>
    /\ epochImgs = <<>>
    /\ establishmentEpoch = NoData
    /\ epochNDVI = <<>>
    /\ yearsToThreshold = NoData
    /\ yearsToCanopy = NoData
    /\ values = <<>>
    /\ clicks = <<>>
    /\ pending = {}
    /\ panel = <<>>
    /\ reforestationMask = NoData
    /\ annualCollection = <<>>
    /\ finalRecoveryMap = NoData

NextGrid ==
    \/ LoadPixel
    \/ ComputeStatesObs
    \/ TrendAnalysisGrid
    \/ ChangeClassification
    \/ TrajectoryProjection
    \/ EpochStage
    \/ EpochLoopStart
    \/ EpochLoop9
    \/ EpochLoop8
    \/ EpochLoopExit
    \/ EpochMapObs
    \/ EpochReduce
    \/ StorePixel

SpecGrid == InitGrid /\ [][NextGrid]_vars

MaxClicks == 2       \* clicks made in one behaviour
MaxInspSlope == 6    \* slopes at a clicked point range over -+ this many steps

ACCEL_THRESHOLD == 2

\* JavaScript `x || 0` of a band value
OrZero(x) == IF x = NoData THEN 0 ELSE x

\* the if / else if / else of "Determine trend acceleration" (8-class) and
\* "Determine momentum" (9-class): the same code
trendAccel(res) ==
    LET slopeVal == OrZero(res.slope)
        recentSlopeVal == OrZero(res.recent_slope)
    IN IF Abs(recentSlopeVal - slopeVal) < ACCEL_THRESHOLD THEN "Consistent"
       ELSE IF recentSlopeVal > slopeVal + ACCEL_THRESHOLD THEN "Accelerating"
       ELSE "Decelerating"

\* the branch of "Dense Canopy Status" that is taken
canopyStatus(res) ==
    LET currentNDVI == OrZero(res.current_ndvi)
        slopeVal == OrZero(res.slope)
        recentSlopeVal == OrZero(res.recent_slope)
        startedDense == res.start_class = 1
        nowDense == OrZero(res.current_ndvi) >= DENSE_CANOPY
        \* the slope yearsNeeded divides by
        divisor == IF script = "v8" THEN recentSlopeVal ELSE slopeVal
        gap == DENSE_CANOPY - currentNDVI
        \* yearsNeeded <= 0: a quotient of a positive gap that is negative
        \* (a division by 0 gives Infinity)
        notPositive == (gap > 0 /\ divisor < 0) \/ (gap <= 0 /\ divisor > 0)
        \* yearsNeeded <= 50, with yearsNeeded = 50 * gap / divisor
        within50 == divisor > 0 /\ gap <= divisor
    IN IF res.epoch # NoData /\ res.epoch # 0 THEN "Canopy Reached"
       ELSE IF startedDense /\ nowDense THEN "Established: pre-startYear"
       ELSE IF ~startedDense /\ nowDense /\ slopeVal > 0
            THEN "Established: crossYear"
       ELSE IF ~startedDense /\ nowDense THEN "Established: 2020s"
       ELSE IF slopeVal > 0
            THEN (IF notPositive THEN "At threshold"
                  ELSE IF within50 THEN "Projected"
                  ELSE "Projected (slow)")
       ELSE IF slopeVal < LOSING_SLOPE THEN "Declining (no projection)"
       ELSE IF slopeVal < 0 THEN "Slight decline"
       ELSE "Stable (no change)"

Points == DOMAIN values

NoPoint == "none"

PanelOf(view, point, accel, status) ==
    [view |-> view, point |-> point, accel |-> accel, status |-> status]

\* updateInspector(coords) up to values.evaluate(...).  In the 9-class
\* script the ndviSeries callback reads `image`, which is not defined: the
\* call of map() throws and the handler ends before values.evaluate.
updateInspector(point) ==
    /\ pc = "map"
    /\ Len(clicks) < MaxClicks
    /\ clicks' = Append(clicks, point)
    /\ panel' = PanelOf("Loading...", NoPoint, "", "")
    /\ pending' = IF script = "v9" THEN pending
                  ELSE pending \cup {[id |-> Len(clicks) + 1, point |-> point]}
    /\ UNCHANGED <<script, SENSITIVITY_ADJUSTMENT, startYear, endYear, pc,
                   startNDVI, endNDVI, startClass, endClass, slope, pValue,
                   recentSlope, trendClass, changeClass, y, epochs, epochImgs,
                   establishmentEpoch, epochNDVI, fullCollection,
                   yearsToThreshold, yearsToCanopy, image, grid, cur,
                   values,
                   reforestationMask,
                   annualCollection,
                   finalRecoveryMap>>

MapClick == \E point \in Points : updateInspector(point)

\* the callback of values.evaluate, for a response that has arrived
EvaluateCallback ==
    /\ pc = "map"
    /\ \E req \in pending :
          LET res == values[req.point]
          IN /\ pending' = pending \ {req}
             /\ panel' =
                  IF ~res.ok
                  THEN (IF script = "v8"
                        THEN PanelOf("No data available", NoPoint, "", "")
                        \* 9-class: res.current_ndvi of no record throws
                        \* after the header and the location were added
                        ELSE PanelOf("Point Analysis (header only)",
                                     req.point, "", ""))
                  ELSE PanelOf("Point Analysis", req.point,
                               trendAccel(res), canopyStatus(res))
    /\ UNCHANGED <<script, SENSITIVITY_ADJUSTMENT, startYear, endYear, pc,
                   startNDVI, endNDVI, startClass, endClass, slope, pValue,
                   recentSlope, trendClass, changeClass, y, epochs, epochImgs,
                   establishmentEpoch, epochNDVI, fullCollection,
                   yearsToThreshold, yearsToCanopy, image, grid, cur,
                   values, clicks,
                   reforestationMask,
                   annualCollection,
                   finalRecoveryMap>>

InspSlopeVals == {NoData} \cup ((0 - MaxInspSlope)..MaxInspSlope)

\* responses for a clicked point: a failed evaluation, or the bands of a
\* pixel that is below Dense (0.35) or Dense (0.60) or masked
NoRecord ==
    [ok |-> FALSE, slope |-> NoData, recent_slope |-> NoData,
     current_ndvi |-> NoData, start_class |-> NoData, epoch |-> NoData]

ResVals ==
    {NoRecord} \cup
    [ok : {TRUE}, slope : InspSlopeVals, recent_slope : InspSlopeVals,
     current_ndvi : {NoData, DENSE_BASE - 5, DENSE_BASE},
     start_class : {1, 3}, epoch : {NoData, BaseYear + EpochWidth}]

InitInspector ==
    /\ script \in Scripts
    /\ SENSITIVITY_ADJUSTMENT = 0
    /\ startYear = BaseYear
    /\ endYear = BaseYear + 40
    /\ pc = "map"
    /\ values \in [{"A"} -> ResVals]
    /\ clicks = <<>>
    /\ pending = {}
    /\ panel = PanelOf("hidden", NoPoint, "", "")
    /\ startNDVI = NoData /\ endNDVI = NoData
    /\ startClass = NoData /\ endClass = NoData
    /\ slope = NoData /\ pValue = NoData /\ recentSlope = NoData
    /\ trendClass = NoData
    /\ changeClass = NoData
    /\ y = 0
    /\ epochs = <<>>
    /\ epochImgs = <<>>
    /\ establishmentEpoch = NoData
    /\ epochNDVI = <<>>
    /\ fullCollection = <<>>
    /\ yearsToThreshold = NoData
    /\ yearsToCanopy = NoData
    /\ image = <<>>
    /\ grid = <<>>
    /\ cur = <<>>
    /\ reforestationMask = NoData
    /\ annualCollection = <<>>
    /\ finalRecoveryMap = NoData

NextInspector ==
    \/ MapClick
    \/ EvaluateCallback

SpecInspector == InitInspector /\ [][NextInspector]_vars

\* the server answers every request it was sent
SpecInspectorFair == SpecInspector /\ WF_vars(EvaluateCallback)

\* the panel shows the analysis of a point whose record is res
Shows(res) == panel.view = "Point Analysis" /\ res = values[panel.point]

\* C21: the acceleration indicator shown for (long-term slope, recent slope)
\* is Consistent exactly when |recent - long| < 0.002, Accelerating exactly
\* when recent > long + 0.002, Decelerating exactly when recent < long - 0.002.
C21_AccelerationTable ==
    \A res \in ResVals :
        Shows(res) =>
            LET long == OrZero(res.slope)
                recent == OrZero(res.recent_slope)
            IN /\ panel.accel = "Consistent"
                    <=> Abs(recent - long) < ACCEL_THRESHOLD
               /\ panel.accel = "Accelerating"
                    <=> recent > long + ACCEL_THRESHOLD
               /\ panel.accel = "Decelerating"
                    <=> recent < long - ACCEL_THRESHOLD

(***************************************************************************)
(* Two points that can be clicked, A and B, one after the other.           *)
(***************************************************************************)
\* a failed evaluation, a stable Dense pixel, a gaining Sparse pixel
RaceResVals ==
    {NoRecord,
     [ok |-> TRUE, slope |-> 0, recent_slope |-> 0,
      current_ndvi |-> DENSE_BASE, start_class |-> 1, epoch |-> NoData],
     [ok |-> TRUE, slope |-> GAINING_SLOPE + 1, recent_slope |-> 0 - 1,
      current_ndvi |-> DENSE_BASE - 5, start_class |-> 3, epoch |-> NoData]}

InitRace ==
    /\ script \in Scripts
    /\ SENSITIVITY_ADJUSTMENT = 0
    /\ startYear = BaseYear
    /\ endYear = BaseYear + 40
    /\ pc = "map"
    /\ values \in [{"A", "B"} -> RaceResVals]
    /\ clicks = <<>>
    /\ pending = {}
    /\ panel = PanelOf("hidden", NoPoint, "", "")
    /\ startNDVI = NoData /\ endNDVI = NoData
    /\ startClass = NoData /\ endClass = NoData
    /\ slope = NoData /\ pValue = NoData /\ recentSlope = NoData
    /\ trendClass = NoData
    /\ changeClass = NoData
    /\ y = 0
    /\ epochs = <<>>
    /\ epochImgs = <<>>
    /\ establishmentEpoch = NoData
    /\ epochNDVI = <<>>
    /\ fullCollection = <<>>
    /\ yearsToThreshold = NoData
    /\ yearsToCanopy = NoData
    /\ image = <<>>
    /\ grid = <<>>
    /\ cur = <<>>
    /\ reforestationMask = NoData
    /\ annualCollection = <<>>
    /\ finalRecoveryMap = NoData

NextRace ==
    \/ MapClick
    \/ EvaluateCallback

SpecRace == InitRace /\ [][NextRace]_vars

\* C28: the user clicked A and then B before A's callback had run; once both
\* callbacks have run, in whatever order, the panel shows the analysis of B
\* and not that of A.
C28_LastClickShown ==
    /\ clicks = <<"A", "B">>
    /\ pending = {}
    /\ values["A"].ok /\ values["B"].ok
    /\ panel.view = "Point Analysis"
    => panel.point = "B"

\* C29: after every click the handler reaches values.evaluate, and once the
\* evaluation has responded the panel has left 'Loading...' and shows the
\* point analysis or the no-data message.
C29_LoadingEnds ==
    [](panel.view = "Loading..." =>
          <>(panel.view \in {"Point Analysis", "No data available"}))

\* C30: in the 8-class inspector the status 'At threshold' is shown only for
\* a pixel whose current NDVI is at or above DENSE_CANOPY.
C30_AtThresholdOnlyWhenDense ==
    script = "v8" /\ panel.view = "Point Analysis"
                  /\ panel.status = "At threshold" =>
        /\ values[panel.point].current_ndvi # NoData
        /\ values[panel.point].current_ndvi >= DENSE_CANOPY

(***************************************************************************)
(* 2. DATA PROCESSING from raw Landsat values.  A scene holds, at a pixel, *)
(* the digital numbers of the red and near-infrared bands and QA_PIXEL;    *)
(* maskL57 / maskL89 mask clouds (bit 3) and shadows (bit 4) and scale to  *)
(* reflectance, DN * 0.0000275 - 0.2.  Reflectance is kept as the integer  *)
(* 11 * DN - 80000, in steps of 1/400000; a normalized difference does not *)
(* depend on the step.                                                     *)
(***************************************************************************)
MaxRawObs == 2       \* scenes over a pixel in the baseline window

\* digital numbers drawn: reflectance -0.0075, 0.000008, 0.02 and 0.35
DNVals == {7000, 7273, 8000, 20000}

\* QA_PIXEL values drawn: clear, cloud (bit 3), cloud shadow (bit 4)
QAVals == {0, 8, 16}

\* image.multiply(0.0000275).add(-0.2)
ScaleToReflectance(dn) == 11 * dn - 80000

\* qa.bitwiseAnd(1 << 3).eq(0).and(qa.bitwiseAnd(1 << 4).eq(0))
ClearMask(qa) == Bool((qa \div 8) % 2 = 0 /\ (qa \div 16) % 2 = 0)

\* maskL57 and maskL89 at a pixel: the scaled bands under the QA mask
maskL(raw) ==
    [year |-> raw.year,
     Red |-> UpdateMask(ScaleToReflectance(raw.SR_Red), ClearMask(raw.QA_PIXEL)),
     NIR |-> UpdateMask(ScaleToReflectance(raw.SR_NIR), ClearMask(raw.QA_PIXEL))]

RawObs(yr) == [year : {yr}, SR_Red : DNVals, SR_NIR : DNVals, QA_PIXEL : QAVals]

RawSeqs(yr) == UNION {[1..n -> RawObs(yr)] : n \in 0..MaxRawObs}

\* a reducer over the collection skips the pixels that are masked
Unmasked(o) == o.Red # NoData /\ o.NIR # NoData

\* l5.merge(l7).merge(l8).merge(l9) at a pixel
MaskedCollection(raws) ==
    SelectSeq([i \in 1..Len(raws) |-> maskL(raws[i])], Unmasked)

InitScaled ==
    /\ script \in Scripts
    /\ SENSITIVITY_ADJUSTMENT = 0
    /\ startYear = BaseYear
    /\ endYear = BaseYear + 40
    /\ pc = "states"
    /\ \E raws \in RawSeqs(BaseYear) : fullCollection = MaskedCollection(raws)
    /\ startNDVI = NoData /\ endNDVI = NoData
    /\ startClass = NoData /\ endClass = NoData
    /\ slope = NoData /\ pValue = NoData /\ recentSlope = NoData
    /\ trendClass = NoData
    /\ changeClass = NoData
    /\ y = 0
    /\ epochs = <<>>
    /\ epochImgs = <<>>
    /\ establishmentEpoch = NoData
    /\ epochNDVI = <<>>
    /\ yearsToThreshold = NoData
    /\ yearsToCanopy = NoData
    /\ image = <<>>
    /\ grid = <<>>
    /\ cur = <<>>
    /\ values = <<>>
    /\ clicks = <<>>
    /\ pending = {}
    /\ panel = <<>>
    /\ reforestationMask = NoData
    /\ annualCollection = <<>>
    /\ finalRecoveryMap = NoData

NextScaled == ComputeStatesObs

SpecScaled == InitScaled /\ [][NextScaled]_vars

\* twice the median reflectances the baseline composite is computed from
MedianRed2 == Median2(Band(BaselineWindow, "Red"))
MedianNIR2 == Median2(Band(BaselineWindow, "NIR"))

MaxBinarySpan == 5   \* endYear is startYear + MaxBinarySpan

forestThreshold == 9

wasOpen(ndvi) == Lte(ndvi, forestThreshold)
isForest(ndvi) == Gt(ndvi, forestThreshold)

reforestationMaskOf_forestNow(s, e) == isForest(e)

\* wasOpen.and(isForest)
reforestationMaskOf(s, e) == And(wasOpen(s), isForest(e))

\* img.gt(forestThreshold).multiply(year).selfMask()
recoveryYearImage(img, year) == SelfMask(Multiply(Gt(img, forestThreshold), year))

\* sections 3A to 3C
BinaryStates ==
    /\ pc = "states"
    /\ script = "binary"
    /\ LET s == getSeasonalComposite(startYear, startYear + 2)
           e == getSeasonalComposite(endYear - 2, endYear)
       IN /\ startNDVI' = s
          /\ endNDVI' = e
          /\ reforestationMask' = reforestationMaskOf(s, e)
    /\ pc' = "annual"
    /\ UNCHANGED <<script, SENSITIVITY_ADJUSTMENT, startYear, endYear,
                   startClass, endClass, slope, pValue, recentSlope,
                   trendClass, changeClass, y, epochs, epochImgs,
                   establishmentEpoch, epochNDVI, fullCollection,
                   yearsToThreshold, yearsToCanopy, image, grid, cur,
                   values, clicks, pending, panel, annualCollection,
                   finalRecoveryMap>>

\* the callback of years.map, for the next year of the list
AnnualMap ==
    /\ pc = "annual"
    /\ startYear + Len(annualCollection) <= endYear
    /\ LET year == startYear + Len(annualCollection)
           img == getSeasonalComposite(year, year)
       IN annualCollection' =
              Append(annualCollection, recoveryYearImage(img, year))
    /\ UNCHANGED <<script, SENSITIVITY_ADJUSTMENT, startYear, endYear, pc,
                   startNDVI, endNDVI, startClass, endClass, slope, pValue,
                   recentSlope, trendClass, changeClass, y, epochs, epochImgs,
                   establishmentEpoch, epochNDVI, fullCollection,
                   yearsToThreshold, yearsToCanopy, image, grid, cur,
                   values, clicks, pending, panel, reforestationMask,
                   finalRecoveryMap>>

\* annualCollection.min().clip(roi).updateMask(reforestationMask)
RecoveryReduce ==
    /\ pc = "annual"
    /\ startYear + Len(annualCollection) > endYear
    /\ finalRecoveryMap' =
          UpdateMask(CollectionMin(annualCollection), reforestationMask)
    /\ pc' = "recovery"
    /\ UNCHANGED <<script, SENSITIVITY_ADJUSTMENT, startYear, endYear,
                   startNDVI, endNDVI, startClass, endClass, slope, pValue,
                   recentSlope, trendClass, changeClass, y, epochs, epochImgs,
                   establishmentEpoch, epochNDVI, fullCollection,
                   yearsToThreshold, yearsToCanopy, image, grid, cur,
                   values, clicks, pending, panel, reforestationMask,
                   annualCollection>>

InitBinary ==
    /\ script = "binary"
    /\ SENSITIVITY_ADJUSTMENT = 0
    /\ startYear = BaseYear
    /\ endYear = startYear + MaxBinarySpan
    /\ pc = "states"
    /\ \E h \in [startYear..endYear -> ObsKinds] :
          fullCollection = CollectionOf(h, startYear, endYear)
    /\ startNDVI = NoData /\ endNDVI = NoData
    /\ startClass = NoData /\ endClass = NoData
    /\ slope = NoData /\ pValue = NoData /\ recentSlope = NoData
    /\ trendClass = NoData
    /\ changeClass = NoData
    /\ y = 0
    /\ epochs = <<>>
    /\ epochImgs = <<>>
    /\ establishmentEpoch = NoData
    /\ epochNDVI = <<>>
    /\ yearsToThreshold = NoData
    /\ yearsToCanopy = NoData
    /\ image = <<>>
    /\ grid = <<>>
    /\ cur = <<>>
    /\ values = <<>>
    /\ clicks = <<>>
    /\ pending = {}
    /\ panel = <<>>
    /\ reforestationMask = NoData
    /\ annualCollection = <<>>
    /\ finalRecoveryMap = NoData

NextBinary ==
    \/ BinaryStates
    \/ AnnualMap
    \/ RecoveryReduce

SpecBinary == InitBinary /\ [][NextBinary]_vars

\* the years whose own summer composite is above the forest threshold
ForestYears ==
    {yr \in startYear..endYear :
        LET n == getSeasonalComposite(yr, yr)
        IN n # NoData /\ n > forestThreshold}

Reforestation ==
    /\ startNDVI # NoData /\ startNDVI <= forestThreshold
    /\ endNDVI # NoData /\ endNDVI > forestThreshold

\* C23: finalRecoveryMap is defined only for reforestation pixels (baseline
\* composite <= 0.45, end composite > 0.45), and for such a pixel its value
\* is the earliest year of startYear..endYear whose own summer median NDVI
\* exceeds 0.45.
C23_YearOfRecovery ==
    pc = "recovery" =>
        /\ finalRecoveryMap # NoData => Reforestation
        /\ Reforestation /\ ForestYears # {} =>
              /\ finalRecoveryMap \in ForestYears
              /\ \A yr \in ForestYears : finalRecoveryMap <= yr
        /\ ForestYears = {} => finalRecoveryMap = NoData

\* open in 1985-1987, forest at the end, first forest year after an open
\* year and before a later open year
C23_Witness ==
    /\ pc = "recovery"
    /\ Reforestation
    /\ finalRecoveryMap = startYear + 3
    /\ (startYear + 5) \in ForestYears
    /\ (startYear + 4) \notin ForestYears

(***************************************************************************)
(* Further properties of the epoch bins and of the change classes.         *)
(***************************************************************************)
\* C24: in the 8-class script, for endYear >= startYear + 5, no epoch bin is
\* shorter than 3 years and none is longer than 7 years.
C24_BinWidths ==
    EpochLoopOver /\ script = "v8" /\ endYear >= startYear + 5 =>
        \A i \in 1..Len(epochs) : 3 <= BinWidth(i) /\ BinWidth(i) <= 7

\* the gaining condition of the accumulation classes, as documented:
\* long-term trend class Gaining, or recent slope above GAINING_SLOPE
GainingByEither ==
    trendClass = 1 \/ (recentSlope # NoData /\ recentSlope > GAINING_SLOPE)

\* C25: in the 8-class script the change class is 7 exactly when start and
\* end state are both Sparse and the pixel is gaining by its long-term trend
\* class or by its recent slope, 8 exactly when both are Transitional and the
\* same holds; a Bare-to-Bare pixel never gets class 7 or 8.
C25_AccumulationClasses ==
    Classified /\ script = "v8" =>
        /\ changeClass = 7 <=>
              startClass = 3 /\ endClass = 3 /\ GainingByEither
        /\ changeClass = 8 <=>
              startClass = 2 /\ endClass = 2 /\ GainingByEither
        /\ startClass = 4 /\ endClass = 4 => changeClass \notin {7, 8}

\* the change class the rule set of script scr gives the pixel in hand
GuardOf(scr, r, cc) ==
    IF scr = "v9"
    THEN changeGuard9(r, startClass, endClass, trendClass, cc)
    ELSE changeGuard8(r, startClass, endClass, trendClass, recentSlope)

RECURSIVE RunRulesOf(_, _, _)
RunRulesOf(scr, r, cc) ==
    IF r > (IF scr = "v9" THEN 9 ELSE 8) THEN cc
    ELSE RunRulesOf(scr, r + 1, Where(cc, GuardOf(scr, r, cc), r))

ChangeClass9 == RunRulesOf("v9", 1, 0)
ChangeClass8 == RunRulesOf("v8", 1, 0)

\* Sparse-to-Sparse or Transitional-to-Transitional with the gaining
\* condition of the accumulation classes
AccumulationInput ==
    /\ startClass = endClass
    /\ startClass \in {2, 3}
    /\ GainingByEither

\* C26: on the same start state, end state, trend class and recent slope the
\* two rule sets give 0 to the same inputs, except the accumulation inputs,
\* which are 0 under the 9-class rules and 7 or 8 under the 8-class rules;
\* and they give classes 1, 5 and 6 to the same inputs.
C26_RuleSetsDiffer ==
    Classified =>
        /\ changeClass = (IF script = "v9" THEN ChangeClass9 ELSE ChangeClass8)
        /\ AccumulationInput =>
              /\ ChangeClass9 = 0
              /\ ChangeClass8 = (IF startClass = 3 THEN 7 ELSE 8)
        /\ ~AccumulationInput => (ChangeClass9 = 0 <=> ChangeClass8 = 0)
        /\ \A k \in {1, 5, 6} : ChangeClass9 = k <=> ChangeClass8 = k

\* C27: a pixel has a defined epoch label only if its change class is
\* Establishment or Maturation: class 4 or 6 in the 8-class script, class 6
\* in the 9-class script.  Stated of the pixel in hand once its epoch is
\* reduced and of every stored pixel record.
C27_EpochOnlyForEstablishment ==
    LET Allowed == IF script = "v8" THEN {4, 6} ELSE {6}
    IN /\ pc = "epochDone" /\ establishmentEpoch # NoData
             => changeClass \in Allowed
       /\ \A it \in Items : \A rec \in grid[it] :
             rec.epoch # NoData => rec.change_class \in Allowed

\* an 8-class Maturation pixel with an epoch label
C27_Witness ==
    /\ script = "v8"
    /\ pc = "epochDone"
    /\ establishmentEpoch # NoData
    /\ changeClass = 4
    /\ startClass = 2 /\ endClass = 1

====
